---------------------------- MODULE Spec2Model ----------------------------
(***************************************************************************)
(* A model of the goncurses binding: the Go wrappers of src/ncurses.go and *)
(* of the library file bundled in src/examples/color/color.go, together    *)
(* with the part of the native curses library they call into.  The native  *)
(* library is modelled by its documented contract; each native operator    *)
(* below is named after the C function and is used only at the call site   *)
(* the wrapper has in the source.                                          *)
(***************************************************************************)
EXTENDS Integers, Sequences, FiniteSets, TLC

VARIABLES
    term,         \* the terminal: [colors: BOOLEAN, pairs: Nat], fixed per session
    COLOR_PAIRS,  \* the C global COLOR_PAIRS (0 until start_color succeeds)
    pairs,        \* native color-pair registry: pair id -> <<fg, bg>>
    wins,         \* native WINDOW structures, by handle
    bufs,         \* native cell storage, by buffer id
    last,         \* the last call of the binding and what it returned
    nops,         \* number of drawing calls made so far
    scr,          \* the native SCREEN: virtual and physical screen, change marks,
                  \* the windows staged for the next update, the endwin flag
    mouse,        \* mouse support of library and terminal, and the event mask set
    nret,         \* what the native call of the last operation reported
    pc            \* per thread: the native call it is inside, or NoCall

vars == <<term, COLOR_PAIRS, pairs, wins, bufs, last, nops, scr, mouse, nret, pc>>

---------------------------------------------------------------------------
(* Bounds of the model *)

MaxY == 1        \* last row of the screen
MaxX == 1        \* last column of the screen
MaxWins == 3     \* WINDOW structures that can exist at once
MaxOps == 3      \* drawing calls in one run

---------------------------------------------------------------------------
(* C integer conversions *)

ShortBits == 16

\* C.short(n): a Go integer converted to a signed 16-bit C integer
CShort(n) ==
    LET m == n % (2 ^ ShortBits)
    IN  IF m >= 2 ^ (ShortBits - 1) THEN m - 2 ^ ShortBits ELSE m

\* C.int(n): a Go integer converted to a signed 32-bit C integer.  Every
\* integer of this model lies within -2^31 .. 2^31-1, where the conversion
\* keeps the value.
CInt(n) == n

---------------------------------------------------------------------------
(* Color constants and the inputs the color calls are tried with *)

C_BLACK == 0
C_BLUE == 4
C_CYAN == 6
C_WHITE == 7

\* COLORS of the modelled terminals: color numbers 0..7 are valid
NativeColors == 8

\* values COLOR_PAIRS takes after start_color, by terminal
TermColorPairs == {8, 256, 32768, 65536}

\* pair ids passed to InitPair(pair int16, ...) of ncurses.go
PairArgsInt16 == {-1, 0, 1, 8, 255, 32767}

\* pair ids passed to InitPair(pair byte, ...) of color.go
PairArgsByte == {0, 1, 8, 255}

\* (fg, bg) arguments: the two of the example and one with an invalid color
ColorArgs == {<<C_BLUE, C_WHITE>>, <<C_BLACK, C_CYAN>>, <<C_BLACK, NativeColors>>}

NoCall == <<>>

\* the record kept of a call: the function, the file of the implementation,
\* the window handle (0 for a package function), the arguments, the error
\* returned ("nil": nil, "none": the function has no error result), the
\* native call made, the other results, and what the call replaced
Call(op, impl, win, args, err, ncall, ret, old) ==
    [op |-> op, impl |-> impl, win |-> win, args |-> args, err |-> err,
     ncall |-> ncall, ret |-> ret, old |-> old]

EmptyRegistry == [p \in {} |-> <<0, 0>>]

\* what a native call reported to the wrapper: "OK" or "ERR" for a C int
\* result, "NULL" for a null handle; "none" when no native call was made or
\* the call has no failure result
Reported(ncall, ok) ==
    IF ncall = NoCall THEN "none" ELSE IF ok THEN "OK" ELSE "ERR"

---------------------------------------------------------------------------
(* Native color calls *)

\* init_pair(pair, f, b): ERR unless color mode is on, 1 <= pair < COLOR_PAIRS
\* and both colors exist; on OK the pair is (re)defined
init_pair_ok(cp, pair, f, b) ==
    /\ cp > 0
    /\ pair >= 1
    /\ pair < cp
    /\ f >= 0 /\ f < NativeColors
    /\ b >= 0 /\ b < NativeColors

init_pair(reg, cp, pair, f, b) ==
    IF init_pair_ok(cp, pair, f, b)
    THEN [ok |-> TRUE, reg |-> (pair :> <<f, b>>) @@ reg]
    ELSE [ok |-> FALSE, reg |-> reg]

\* pair_content(pair, &f, &b): ERR for a pair out of range; a pair never
\* defined reads as <<0, 0>>
pair_content(reg, cp, pair) ==
    IF cp > 0 /\ pair >= 0 /\ pair < cp
    THEN [ok |-> TRUE, fg |-> IF pair \in DOMAIN reg THEN reg[pair][1] ELSE 0,
                       bg |-> IF pair \in DOMAIN reg THEN reg[pair][2] ELSE 0]
    ELSE [ok |-> FALSE, fg |-> 0, bg |-> 0]

---------------------------------------------------------------------------
(* InitPair, StartColor, PairContent *)

\* a variant of the guard that leaves out the test for pair 0
InitPairGuardInt16_NoZero(pair, cp) == CShort(pair) > CShort(cp - 1)

\* ncurses.go: pair == 0 || C.short(pair) > C.short(C.COLOR_PAIRS-1)
InitPairGuardInt16(pair, cp) ==
    pair = 0 \/ CShort(pair) > CShort(cp - 1)

\* color.go: pair == 0 || C.int(pair) > (C.COLOR_PAIRS-1)
InitPairGuardByte(pair, cp) ==
    pair = 0 \/ CInt(pair) > cp - 1

InitPairGuard(impl, pair, cp) ==
    IF impl = "ncurses.go" THEN InitPairGuardInt16(pair, cp)
    ELSE InitPairGuardByte(pair, cp)

\* a variant that registers first and validates afterwards
InitPairResult_RegisterFirst(impl, pair, fg, bg, cp, reg) ==
    LET n == init_pair(reg, cp, CShort(pair), CShort(fg), CShort(bg))
    IN  IF InitPairGuard(impl, pair, cp)
        THEN [err |-> "Invalid color pair selected", ncall |-> NoCall,
              reg |-> n.reg]
        ELSE [err |-> IF n.ok THEN "nil" ELSE "Failed to init color pair",
              ncall |-> <<"init_pair", CShort(pair), CShort(fg), CShort(bg)>>,
              reg |-> n.reg]

\* a variant that hands the colors to init_pair in the wrong order
InitPairResult_SwapColors(impl, pair, fg, bg, cp, reg) ==
    LET n == init_pair(reg, cp, CShort(pair), CShort(bg), CShort(fg))
    IN  IF InitPairGuard(impl, pair, cp)
        THEN [err |-> "Invalid color pair selected", ncall |-> NoCall,
              reg |-> reg]
        ELSE [err |-> IF n.ok THEN "nil" ELSE "Failed to init color pair",
              ncall |-> <<"init_pair", CShort(pair), CShort(bg), CShort(fg)>>,
              reg |-> n.reg]

\* what InitPair returns, the native call it makes, and the registry after it
InitPairResult(impl, pair, fg, bg, cp, reg) ==
    IF InitPairGuard(impl, pair, cp)
    THEN [err |-> "Invalid color pair selected", ncall |-> NoCall, reg |-> reg]
    ELSE LET n == init_pair(reg, cp, CShort(pair), CShort(fg), CShort(bg))
         IN  [err |-> IF n.ok THEN "nil" ELSE "Failed to init color pair",
              ncall |-> <<"init_pair", CShort(pair), CShort(fg), CShort(bg)>>,
              reg |-> n.reg]

InitPair(impl, pair, fg, bg) ==
    LET r == InitPairResult(impl, pair, fg, bg, COLOR_PAIRS, pairs)
    IN  /\ pairs' = r.reg
        /\ last' = Call("InitPair", impl, 0, <<pair, fg, bg>>, r.err, r.ncall, <<>>,
                         IF CShort(pair) \in DOMAIN pairs
                         THEN pairs[CShort(pair)] ELSE <<>>)
        /\ nret' = Reported(r.ncall, init_pair_ok(COLOR_PAIRS, CShort(pair),
                                                  CShort(fg), CShort(bg)))
        /\ UNCHANGED <<term, COLOR_PAIRS, wins, bufs, nops, scr, mouse, pc>>

\* StartColor: has_colors() false is an error; start_color() may report ERR;
\* on OK the library sets COLOR_PAIRS.  A second start_color keeps the registry.
StartColor(nativeOk) ==
    /\ IF ~term.colors
       THEN /\ last' = Call("StartColor", "both", 0, <<>>,
                             "Terminal does not support colors",
                             <<"has_colors">>, <<>>, <<>>)
            /\ UNCHANGED COLOR_PAIRS
       ELSE IF ~nativeOk
       THEN /\ last' = Call("StartColor", "both", 0, <<>>,
                             "Failed to enable color mode",
                             <<"start_color">>, <<>>, <<>>)
            /\ UNCHANGED COLOR_PAIRS
       ELSE /\ last' = Call("StartColor", "both", 0, <<>>, "nil",
                             <<"start_color">>, <<>>, <<>>)
            /\ COLOR_PAIRS' = term.pairs
    /\ nret' = IF ~term.colors THEN "none" ELSE Reported(<<"start_color">>, nativeOk)
    /\ UNCHANGED <<term, pairs, wins, bufs, nops, scr, mouse, pc>>

PairContent(pair) ==
    LET n == pair_content(pairs, COLOR_PAIRS, CShort(pair))
    IN  /\ last' = Call("PairContent", "ncurses.go", 0, <<pair>>,
                         IF n.ok THEN "nil" ELSE "Invalid color pair",
                         <<"pair_content", CShort(pair)>>,
                         IF n.ok THEN <<n.fg, n.bg>> ELSE <<-1, -1>>, <<>>)
        /\ nret' = Reported(<<"pair_content">>, n.ok)
        /\ UNCHANGED <<term, COLOR_PAIRS, pairs, wins, bufs, nops, scr, mouse, pc>>

---------------------------------------------------------------------------
(* Windows: the native WINDOW structure and its cell storage *)

Blank == 32
A_NORMAL == 0

Ys == 0..MaxY
Xs == 0..MaxX

NoWin == [live |-> FALSE]

\* a WINDOW of rows x cols cells whose top-left corner is at screen position
\* (begy, begx); its cells are those of buffer buf from (offy, offx) on;
\* parent is the handle of the window it was carved from, 0 for none
Window(begy, begx, rows, cols, buf, offy, offx, parent) ==
    [live |-> TRUE, begy |-> begy, begx |-> begx, rows |-> rows, cols |-> cols,
     cury |-> 0, curx |-> 0, attrs |-> A_NORMAL,
     buf |-> buf, offy |-> offy, offx |-> offx, parent |-> parent]

NoBuf == <<>>

BlankCells(rows, cols) == [c \in (0..rows - 1) \X (0..cols - 1) |-> Blank]

StdScr == 1

---------------------------------------------------------------------------
(* The session after Init: initscr has made stdscr, the size of the screen *)

\* the SCREEN initscr sets up: both screens blank, stdscr (like every new
\* window) marked as changed, nothing staged, not ended, typed characters
\* echoed, no half-delay mode (halfdelay is the timeout in tenths of a second,
\* 0 when input waits for a key)
NewScreen ==
    [newscr |-> BlankCells(MaxY + 1, MaxX + 1),
     curscr |-> BlankCells(MaxY + 1, MaxX + 1),
     touched |-> [h \in 1..MaxWins |-> h = StdScr],
     staged |-> {},
     endwin |-> FALSE,
     echo |-> TRUE,
     halfdelay |-> 0]

\* mouse events, as bits of a mask
M_B1_RELEASED == 1
M_B1_PRESSED == 2
M_B1_CLICKED == 4

\* all the mouse events of the model
MouseEvents == M_B1_RELEASED + M_B1_PRESSED + M_B1_CLICKED

\* mouse support: has is what ncurses_has_mouse() answers, events the events
\* the terminal can report, mask the events reported at present.  Here, a
\* library with mouse support on a terminal that reports every event.
FullMouse == [has |-> TRUE, events |-> MouseEvents, mask |-> 0]

\* the threads of the program that call into the binding
Threads == {"t1", "t2"}

\* the session after Init on terminal t with mouse support m
Started(tm, m) ==
    /\ term = tm
    /\ mouse = m
    /\ scr = NewScreen
    /\ nret = "OK"
    /\ pc = [t \in Threads |-> NoCall]
    /\ COLOR_PAIRS = 0
    /\ pairs = EmptyRegistry
    /\ wins = [h \in 1..MaxWins |->
                 IF h = StdScr
                 THEN Window(0, 0, MaxY + 1, MaxX + 1, StdScr, 0, 0, 0)
                 ELSE NoWin]
    /\ bufs = [b \in 1..MaxWins |->
                 IF b = StdScr THEN BlankCells(MaxY + 1, MaxX + 1) ELSE NoBuf]
    /\ last = Call("Init", "both", 0, <<>>, "nil", <<"initscr">>, <<StdScr>>, <<>>)
    /\ nops = 0

Init == \E tm \in [colors : BOOLEAN, pairs : TermColorPairs] : Started(tm, FullMouse)

\* a session on one terminal; the window calls do not depend on its colors
InitWindows == Init /\ term = [colors |-> TRUE, pairs |-> 256]

NextColor ==
    \/ \E ok \in BOOLEAN : StartColor(ok)
    \/ \E p \in PairArgsInt16, c \in ColorArgs : InitPair("ncurses.go", p, c[1], c[2])
    \/ \E p \in PairArgsByte, c \in ColorArgs : InitPair("color.go", p, c[1], c[2])
    \/ \E p \in PairArgsInt16 : PairContent(p)

SpecColor == Init /\ [][NextColor]_vars

---------------------------------------------------------------------------
(* Attributes: bit masks, handled as the C library handles them *)

RECURSIVE BitAnd(_, _), BitOr(_, _), BitClear(_, _)

BitAnd(a, b) ==
    IF a = 0 \/ b = 0 THEN 0
    ELSE (a % 2) * (b % 2) + 2 * BitAnd(a \div 2, b \div 2)

BitOr(a, b) ==
    IF a = 0 THEN b
    ELSE IF b = 0 THEN a
    ELSE (IF a % 2 = 1 \/ b % 2 = 1 THEN 1 ELSE 0) + 2 * BitOr(a \div 2, b \div 2)

\* a & ~b
BitClear(a, b) ==
    IF a = 0 THEN 0
    ELSE (IF a % 2 = 1 /\ b % 2 = 0 THEN 1 ELSE 0) + 2 * BitClear(a \div 2, b \div 2)

A_UNDERLINE == 131072
A_BOLD == 2097152
A_COLOR == 65280
PairShift == 8

\* the native COLOR_PAIR(n): the pair number moved into the color bits
COLOR_PAIR(n) == BitAnd(n * 2 ^ PairShift, A_COLOR)

PairNumber(a) == BitAnd(a, A_COLOR) \div 2 ^ PairShift

\* wattron(win, at) and wattroff(win, at) on the window's attribute word
wattr_on(attrs, at) ==
    IF PairNumber(at) > 0
    THEN BitOr(BitClear(attrs, A_COLOR), at)
    ELSE BitOr(attrs, at)

wattr_off(attrs, at) ==
    IF PairNumber(at) > 0
    THEN BitClear(attrs, BitOr(at, A_COLOR))
    ELSE BitClear(attrs, at)

\* ColorPair(pair int) int
ColorPair(pair) == CInt(COLOR_PAIR(CInt(pair)))

\* the mask AttrOn and AttrOff hand to the native call
AttrMask(attr) == CInt(attr)

\* a variant that hands over the pair number itself
ColorMask_RawPair(pair) == CInt(pair)

\* the mask ColorOn and ColorOff hand to the native call
ColorMask(pair) == COLOR_PAIR(CInt(pair))

\* attribute masks AttrOn and AttrOff are tried with, and pair ids for ColorOn
\* and ColorOff
AttrArgs ==
    {A_BOLD, A_UNDERLINE, BitOr(A_BOLD, ColorPair(1))}
        \cup {ColorPair(p) : p \in PairArgsByte}

Live(h) == wins[h].live

\* a native attribute call on a live window does not fail
AttrCall(op, h, arg, fn, mask, attrs) ==
    /\ Live(h)
    /\ wins' = [wins EXCEPT ![h].attrs = attrs]
    /\ last' = Call(op, "color.go", h, <<arg>>, "nil", <<fn, h, mask>>, <<>>,
                    <<wins[h].attrs>>)
    /\ nret' = Reported(<<fn>>, TRUE)
    /\ UNCHANGED <<term, COLOR_PAIRS, pairs, bufs, nops, scr, mouse, pc>>

AttrOn(h, attr) ==
    AttrCall("AttrOn", h, attr, "wattron", AttrMask(attr),
             wattr_on(wins[h].attrs, AttrMask(attr)))

AttrOff(h, attr) ==
    AttrCall("AttrOff", h, attr, "wattroff", AttrMask(attr),
             wattr_off(wins[h].attrs, AttrMask(attr)))

ColorOn(h, pair) ==
    AttrCall("ColorOn", h, pair, "wattron", ColorMask(pair),
             wattr_on(wins[h].attrs, ColorMask(pair)))

ColorOff(h, pair) ==
    AttrCall("ColorOff", h, pair, "wattroff", ColorMask(pair),
             wattr_off(wins[h].attrs, ColorMask(pair)))

NextAttr ==
    \/ \E h \in 1..MaxWins, a \in AttrArgs : AttrOn(h, a)
    \/ \E h \in 1..MaxWins, a \in AttrArgs : AttrOff(h, a)
    \/ \E h \in 1..MaxWins, p \in PairArgsByte : ColorOn(h, p)
    \/ \E h \in 1..MaxWins, p \in PairArgsByte : ColorOff(h, p)

SpecAttr == InitWindows /\ [][NextAttr]_vars

---------------------------------------------------------------------------
(* Window.Color *)

\* wcolor_set(win, pair, opts): ERR unless 0 <= pair < COLOR_PAIRS; on OK the
\* color bits of the window's attributes become those of the pair
wcolor_set(attrs, cp, pair) ==
    IF pair >= 0 /\ pair < cp
    THEN [ok |-> TRUE, attrs |-> BitOr(BitClear(attrs, A_COLOR), COLOR_PAIR(pair))]
    ELSE [ok |-> FALSE, attrs |-> attrs]

\* the pair number Color hands to wcolor_set:
\* C.short(C.COLOR_PAIR(C.int(pair)))
ColorSetArg(pair) == CShort(COLOR_PAIR(CInt(pair)))

\* Color(pair byte): no error result
Color(h, pair) ==
    LET n == wcolor_set(wins[h].attrs, COLOR_PAIRS, ColorSetArg(pair))
    IN  /\ Live(h)
        /\ wins' = [wins EXCEPT ![h].attrs = n.attrs]
        /\ last' = Call("Color", "color.go", h, <<pair>>, "none",
                        <<"wcolor_set", h, ColorSetArg(pair)>>, <<>>,
                        <<wins[h].attrs>>)
        /\ nret' = Reported(<<"wcolor_set">>, n.ok)
        /\ UNCHANGED <<term, COLOR_PAIRS, pairs, bufs, nops, scr, mouse, pc>>

\* pair ids Color is tried with
ColorSetArgs == PairArgsByte \cup {127, 128}

NextWinColor ==
    \/ \E ok \in BOOLEAN : StartColor(ok)
    \/ \E p \in ColorSetArgs : Color(StdScr, p)
    \/ \E p \in PairArgsByte : ColorOn(StdScr, p)
    \/ \E a \in {A_BOLD, A_UNDERLINE} : AttrOn(StdScr, a)

SpecWinColor == InitWindows /\ [][NextWinColor]_vars

---------------------------------------------------------------------------
(* Native drawing calls, on a WINDOW w and the cells of its buffer *)

InWindow(w, y, x) == y >= 0 /\ y < w.rows /\ x >= 0 /\ x < w.cols

CellAt(w, y, x) == <<w.offy + y, w.offx + x>>

\* wmove: ERR outside the window, else the cursor is moved
wmove(w, y, x) ==
    IF InWindow(w, y, x)
    THEN [ok |-> TRUE, w |-> [w EXCEPT !.cury = y, !.curx = x]]
    ELSE [ok |-> FALSE, w |-> w]

\* waddch: the character, with the window's attributes, goes into the cell
\* under the cursor and the cursor advances, wrapping to the next line; at the
\* bottom-right corner of a window that does not scroll the cursor stays and
\* the call reports ERR
waddch(w, cells, ch) ==
    LET put == [cells EXCEPT ![CellAt(w, w.cury, w.curx)] = BitOr(ch, w.attrs)]
    IN  IF w.curx + 1 < w.cols
        THEN [ok |-> TRUE, w |-> [w EXCEPT !.curx = w.curx + 1], cells |-> put]
        ELSE IF w.cury + 1 < w.rows
        THEN [ok |-> TRUE, w |-> [w EXCEPT !.cury = w.cury + 1, !.curx = 0],
              cells |-> put]
        ELSE [ok |-> FALSE, w |-> w, cells |-> put]

mvwaddch(w, cells, y, x, ch) ==
    LET m == wmove(w, y, x)
    IN  IF m.ok THEN waddch(m.w, cells, ch)
        ELSE [ok |-> FALSE, w |-> w, cells |-> cells]

RECURSIVE waddstr(_, _, _)

\* waddstr: waddch for each character, stopping at the first ERR
waddstr(w, cells, str) ==
    IF str = <<>> THEN [ok |-> TRUE, w |-> w, cells |-> cells]
    ELSE LET r == waddch(w, cells, Head(str))
         IN  IF r.ok THEN waddstr(r.w, r.cells, Tail(str)) ELSE r

mvwaddstr(w, cells, y, x, str) ==
    LET m == wmove(w, y, x)
    IN  IF m.ok THEN waddstr(m.w, cells, str)
        ELSE [ok |-> FALSE, w |-> w, cells |-> cells]

\* wdelch: the character under the cursor is removed, the rest of the line
\* moves one cell left and the last cell of the line becomes blank
wdelch(w, cells) ==
    [ok |-> TRUE, w |-> w,
     cells |-> [c \in DOMAIN cells |->
                  IF c[1] = w.offy + w.cury /\ c[2] >= w.offx + w.curx
                     /\ c[2] < w.offx + w.cols
                  THEN IF c[2] + 1 < w.offx + w.cols
                       THEN cells[<<c[1], c[2] + 1>>] ELSE Blank
                  ELSE cells[c]]]

mvwdelch(w, cells, y, x) ==
    LET m == wmove(w, y, x)
    IN  IF m.ok THEN wdelch(m.w, cells)
        ELSE [ok |-> FALSE, w |-> w, cells |-> cells]

---------------------------------------------------------------------------
(* Strings and fmt.Sprintf *)

\* character codes
Chr == [percent |-> 37, bang |-> 33, zero |-> 48, a |-> 97, d |-> 100, s |-> 115]

\* a Go value of dynamic type int, and one of dynamic type string
IntVal(n) == [t |-> "int", v |-> n]
StrVal(str) == [t |-> "string", v |-> str]

RECURSIVE Decimal(_)

\* the decimal digits of n >= 0
Decimal(n) ==
    IF n < 10 THEN <<Chr.zero + n>>
    ELSE Decimal(n \div 10) \o <<Chr.zero + (n % 10)>>

\* one verb applied to one operand; a verb that does not fit the operand is
\* rendered "%!verb(type=value)", kept here as "%!"
FormatVerb(verb, val) ==
    IF verb = Chr.d /\ val.t = "int" THEN Decimal(val.v)
    ELSE IF verb = Chr.s /\ val.t = "string" THEN val.v
    ELSE <<Chr.percent, Chr.bang>>

RECURSIVE SprintfFrom(_, _, _, _)

\* the format from position i on, with the operands from position k on;
\* an operand that is missing, and operands left over, are rendered "%!"
SprintfFrom(f, vals, i, k) ==
    IF i > Len(f)
    THEN IF k <= Len(vals) THEN <<Chr.percent, Chr.bang>> ELSE <<>>
    ELSE IF f[i] = Chr.percent /\ i < Len(f)
    THEN (IF k <= Len(vals) THEN FormatVerb(f[i + 1], vals[k])
          ELSE <<Chr.percent, Chr.bang>>)
         \o SprintfFrom(f, vals, i + 2, k + 1)
    ELSE <<f[i]>> \o SprintfFrom(f, vals, i + 1, k)

Sprintf(f, vals) == SprintfFrom(f, vals, 1, 1)

---------------------------------------------------------------------------
(* The coordinate-overloaded drawing methods of Window *)

\* the result of a drawing method: the window and cells after it, the error
\* returned, and the native call made
Drawn(r, err, ncall) ==
    [w |-> r.w, cells |-> r.cells, err |-> err, ncall |-> ncall, ok |-> r.ok]

\* a run-time panic: nothing is drawn
Panicked(w, cells, why) ==
    [w |-> w, cells |-> cells, err |-> why, ncall |-> NoCall, ok |-> TRUE]

\* AddChar(args ...int): no error result
AddCharResult(h, w, cells, args) ==
    LET n == Len(args)
        y == IF n > 1 THEN args[1] ELSE 0
        x == IF n > 2 THEN args[2] ELSE 0
        count == (IF n > 1 THEN 1 ELSE 0) + (IF n > 2 THEN 1 ELSE 0)
    IN  IF count + 1 > n
        THEN Panicked(w, cells, "panic: index out of range")
        ELSE IF count > 0
        THEN Drawn(mvwaddch(w, cells, CInt(y), CInt(x), CInt(args[count + 1])),
                   "none", <<"mvwaddch", h, CInt(y), CInt(x), CInt(args[count + 1])>>)
        ELSE Drawn(waddch(w, cells, CInt(args[count + 1])),
                   "none", <<"waddch", h, CInt(args[count + 1])>>)

\* Print(args ...interface{}): no error result
PrintResult(h, w, cells, args) ==
    LET n == Len(args)
        isY == n > 1 /\ args[1].t = "int"
        isX == n > 2 /\ args[2].t = "int"
        y == IF isY THEN args[1].v ELSE 0
        x == IF isX THEN args[2].v ELSE 0
        count == (IF isY THEN 1 ELSE 0) + (IF isX THEN 1 ELSE 0)
    IN  IF count + 1 > n
        THEN Panicked(w, cells, "panic: index out of range")
        ELSE IF args[count + 1].t # "string"
        THEN Panicked(w, cells, "panic: interface conversion")
        ELSE LET str == Sprintf(args[count + 1].v, SubSeq(args, count + 2, n))
             IN  IF count > 0
                 THEN Drawn(mvwaddstr(w, cells, CInt(y), CInt(x), str),
                            "none", <<"mvwaddstr", h, CInt(y), CInt(x), str>>)
                 ELSE Drawn(waddstr(w, cells, str), "none", <<"waddstr", h, str>>)

\* DelChar(coord ...int) error
DelCharResult(h, w, cells, coord) ==
    LET n == Len(coord)
    IN  IF n > 2
        THEN [w |-> w, cells |-> cells, err |-> "Invalid number of arguments",
              ncall |-> NoCall, ok |-> TRUE]
        ELSE IF n > 1
        THEN LET y == coord[1]
                 x == IF n > 2 THEN coord[2] ELSE 0
                 r == mvwdelch(w, cells, CInt(y), CInt(x))
             IN  Drawn(r, IF r.ok THEN "nil" ELSE "An error occurred when trying to delete character",
                       <<"mvwdelch", h, CInt(y), CInt(x)>>)
        ELSE LET r == wdelch(w, cells)
             IN  Drawn(r, IF r.ok THEN "nil" ELSE "An error occurred when trying to delete character",
                       <<"wdelch", h>>)

\* whether a native drawing call marks lines of window w as changed: a call
\* that gets to write does, also when it writes what the cell already held
Touches(w, ncall) ==
    IF ncall = NoCall THEN FALSE
    ELSE CASE ncall[1] \in {"waddch", "wdelch"} -> TRUE
           [] ncall[1] = "waddstr" -> ncall[3] # <<>>
           [] ncall[1] \in {"mvwaddch", "mvwdelch"} -> InWindow(w, ncall[3], ncall[4])
           [] ncall[1] = "mvwaddstr" ->
                  InWindow(w, ncall[3], ncall[4]) /\ ncall[5] # <<>>
           [] OTHER -> FALSE

\* a drawing method takes effect on window h
Draw(op, h, args, r) ==
    /\ nops < MaxOps
    /\ nops' = nops + 1
    /\ wins' = [wins EXCEPT ![h] = r.w]
    /\ bufs' = [bufs EXCEPT ![wins[h].buf] = r.cells]
    /\ scr' = [scr EXCEPT !.touched[h] = @ \/ Touches(wins[h], r.ncall)]
    /\ last' = Call(op, "color.go", h, args, r.err, r.ncall, <<>>,
                    <<wins[h].cury, wins[h].curx>>)
    /\ nret' = Reported(r.ncall, r.ok)
    /\ UNCHANGED <<term, COLOR_PAIRS, pairs, mouse, pc>>

AddChar(h, args) ==
    /\ Live(h)
    /\ Draw("AddChar", h, args, AddCharResult(h, wins[h], bufs[wins[h].buf], args))

\* the method Window.Print
WinPrint(h, args) ==
    /\ Live(h)
    /\ Draw("Print", h, args, PrintResult(h, wins[h], bufs[wins[h].buf], args))

DelChar(h, coord) ==
    /\ Live(h)
    /\ Draw("DelChar", h, coord, DelCharResult(h, wins[h], bufs[wins[h].buf], coord))

\* Move(y, x): no error result
Move(h, y, x) ==
    /\ Live(h)
    /\ Draw("Move", h, <<y, x>>,
            [w |-> wmove(wins[h], CInt(y), CInt(x)).w, cells |-> bufs[wins[h].buf],
             err |-> "none", ncall |-> <<"wmove", h, CInt(y), CInt(x)>>,
             ok |-> wmove(wins[h], CInt(y), CInt(x)).ok])

\* argument lists the drawing methods are tried with
Coords == {<<>>} \cup {<<y>> : y \in Ys} \cup {<<y, x>> : <<y, x>> \in Ys \X Xs}

AddCharArgs == {<<>>} \cup {c \o <<Chr.a>> : c \in Coords}

DelCharArgs == Coords \cup {<<0, 0, 0>>}

PrintPayloads ==
    { <<StrVal(<<Chr.a>>)>>,
      <<StrVal(<<Chr.percent, Chr.d>>), IntVal(1)>>,
      <<StrVal(<<Chr.percent, Chr.d, Chr.percent, Chr.d>>), IntVal(1), IntVal(2)>>,
      <<StrVal(<<Chr.percent, Chr.s, Chr.percent, Chr.d>>), StrVal(<<Chr.a>>), IntVal(1)>> }

PrintCoords ==
    {<<>>} \cup {<<IntVal(y)>> : y \in Ys}
           \cup {<<IntVal(c[1]), IntVal(c[2])>> : c \in Ys \X Xs}

PrintArgs == {<<>>, <<IntVal(0)>>} \cup {c \o f : <<c, f>> \in PrintCoords \X PrintPayloads}

NextDraw ==
    \/ \E a \in AddCharArgs : AddChar(StdScr, a)
    \/ \E a \in PrintArgs : WinPrint(StdScr, a)
    \/ \E a \in DelCharArgs : DelChar(StdScr, a)
    \/ \E y \in Ys, x \in Xs : Move(StdScr, y, x)

SpecDraw == InitWindows /\ [][NextDraw]_vars

---------------------------------------------------------------------------
(* Window creation: Sub and Duplicate *)

FreeHandles == {h \in 1..MaxWins : ~wins[h].live}

\* the handle the native library hands out next
NewHandle == CHOOSE h \in FreeHandles : \A g \in FreeHandles : h <= g

\* the character a window shows at its cell (y, x)
WinCell(ws, bs, h, y, x) == bs[ws[h].buf][CellAt(ws[h], y, x)]

\* derwin(orig, nlines, ncols, y, x), y and x relative to orig: NULL unless
\* the rectangle lies within orig; the new window has its own cursor, takes
\* orig's attributes and uses orig's cells
derwin(p, ph, nlines, ncols, y, x) ==
    LET rows == IF nlines = 0 THEN p.rows - y ELSE nlines
        cols == IF ncols = 0 THEN p.cols - x ELSE ncols
    IN  IF \/ y < 0 \/ x < 0 \/ nlines < 0 \/ ncols < 0
           \/ y + nlines > p.rows \/ x + ncols > p.cols
           \/ rows <= 0 \/ cols <= 0
        THEN [ok |-> FALSE, w |-> NoWin]
        ELSE [ok |-> TRUE,
              w |-> [Window(p.begy + y, p.begx + x, rows, cols, p.buf,
                            p.offy + y, p.offx + x, ph)
                       EXCEPT !.attrs = p.attrs]]

\* subwin(orig, nlines, ncols, begin_y, begin_x), begin_y and begin_x on the screen
subwin(p, ph, nlines, ncols, begin_y, begin_x) ==
    derwin(p, ph, nlines, ncols, begin_y - p.begy, begin_x - p.begx)

\* dupwin(win): a new window with cells of its own, holding a copy of win's
\* cells, cursor and attributes; it is nobody's subwindow
dupwin(w, cells, nb) ==
    [w |-> [w EXCEPT !.buf = nb, !.offy = 0, !.offx = 0, !.parent = 0],
     cells |-> [c \in (0..w.rows - 1) \X (0..w.cols - 1) |->
                  cells[CellAt(w, c[1], c[2])]]]

\* Sub(height, width, y, x int) Window: the handle subwin returns, and no
\* error result
SubResult(p, ph, height, width, y, x) ==
    subwin(p, ph, CInt(height), CInt(width), CInt(y), CInt(x))

Sub(ph, height, width, y, x) ==
    LET r == SubResult(wins[ph], ph, height, width, y, x)
    IN  /\ Live(ph)
        /\ FreeHandles # {}
        /\ nops < MaxOps
        /\ nops' = nops + 1
        /\ wins' = IF r.ok THEN [wins EXCEPT ![NewHandle] = r.w] ELSE wins
        /\ last' = Call("Sub", "color.go", ph, <<height, width, y, x>>, "none",
                        <<"subwin", ph, CInt(height), CInt(width), CInt(y), CInt(x)>>,
                        <<IF r.ok THEN NewHandle ELSE 0>>, <<>>)
        /\ scr' = IF r.ok THEN [scr EXCEPT !.touched[NewHandle] = TRUE] ELSE scr
        /\ nret' = IF r.ok THEN "OK" ELSE "NULL"
        /\ UNCHANGED <<term, COLOR_PAIRS, pairs, bufs, mouse, pc>>

\* a variant that makes the new window with derwin, on the cells of the original
DuplicateResult_Derived(w, h, cells, nb) ==
    [w |-> derwin(w, h, 0, 0, 0, 0).w, cells |-> cells]

\* Duplicate() Window: the handle dupwin returns, and no error result.  The
\* result here is the new WINDOW and the cells of the buffer it uses.
DuplicateResult(w, h, cells, nb) == dupwin(w, cells, nb)

Duplicate(h) ==
    LET r == DuplicateResult(wins[h], h, bufs[wins[h].buf], NewHandle)
    IN  /\ Live(h)
        /\ FreeHandles # {}
        /\ nops < MaxOps
        /\ nops' = nops + 1
        /\ wins' = [wins EXCEPT ![NewHandle] = r.w]
        /\ bufs' = [bufs EXCEPT ![r.w.buf] = r.cells]
        /\ last' = Call("Duplicate", "color.go", h, <<>>, "none", <<"dupwin", h>>,
                        <<NewHandle>>, <<>>)
        /\ scr' = [scr EXCEPT !.touched[NewHandle] = scr.touched[h]]
        /\ nret' = "OK"
        /\ UNCHANGED <<term, COLOR_PAIRS, pairs, mouse, pc>>

\* rectangles Sub is tried with, on the screen: one cell or a full side, at
\* the first or the last row and column
SubArgs == {1, MaxY + 1} \X {1, MaxX + 1} \X {0, MaxY} \X {0, MaxX}

\* cells the windows are written at
WriteArgs == {<<y, x, Chr.a>> : <<y, x>> \in {0, MaxY} \X {0, MaxX}}

NextWin ==
    \/ \E ph \in 1..MaxWins, a \in SubArgs : Sub(ph, a[1], a[2], a[3], a[4])
    \/ \E h \in 1..MaxWins : Duplicate(h)
    \/ \E h \in 1..MaxWins, a \in WriteArgs : AddChar(h, a)

SpecWin == InitWindows /\ [][NextWin]_vars

---------------------------------------------------------------------------
(* Refreshing: the virtual screen (newscr) and the physical screen (curscr) *)

\* the cells of the screen that window w covers
Covers(w, c) ==
    /\ c[1] >= w.begy /\ c[1] < w.begy + w.rows
    /\ c[2] >= w.begx /\ c[2] < w.begx + w.cols

\* a screen with the contents of window w laid over it
Overlaid(screen, w, cells) ==
    [c \in DOMAIN screen |->
       IF Covers(w, c) THEN cells[CellAt(w, c[1] - w.begy, c[2] - w.begx)]
       ELSE screen[c]]

\* whether handle h is a WINDOW of the library; 0 is the null pointer
IsWindow(ws, h) == h \in DOMAIN ws /\ ws[h].live

\* wnoutrefresh(win): ERR for a null window; else the changed lines of win
\* are copied to the virtual screen and their change marks are cleared
wnoutrefresh(s, ws, bs, h) ==
    IF ~IsWindow(ws, h) THEN [ok |-> FALSE, s |-> s]
    ELSE [ok |-> TRUE,
          s |-> [s EXCEPT !.newscr = IF s.touched[h]
                                     THEN Overlaid(s.newscr, ws[h], bs[ws[h].buf])
                                     ELSE s.newscr,
                          !.touched[h] = FALSE,
                          !.staged = s.staged \cup {h}]]

\* doupdate(): the physical screen is made to show the virtual screen; a
\* program that had ended curses mode is back in it
doupdate(s) ==
    [ok |-> TRUE,
     s |-> [s EXCEPT !.curscr = s.newscr, !.staged = {}, !.endwin = FALSE]]

\* wrefresh(win): wnoutrefresh(win), then doupdate()
wrefresh(s, ws, bs, h) ==
    LET n == wnoutrefresh(s, ws, bs, h)
    IN  IF n.ok THEN doupdate(n.s) ELSE [ok |-> FALSE, s |-> s]

\* werase(win): ERR for a null window; else every cell becomes blank, the
\* cursor goes to (0, 0) and every line is marked as changed
werase(w, cells) ==
    [ok |-> TRUE, w |-> [w EXCEPT !.cury = 0, !.curx = 0],
     cells |-> [c \in DOMAIN cells |->
                  IF /\ c[1] >= w.offy /\ c[1] < w.offy + w.rows
                     /\ c[2] >= w.offx /\ c[2] < w.offx + w.cols
                  THEN Blank ELSE cells[c]]]

\* newwin(nlines, ncols, begin_y, begin_x): NULL for a negative argument or a
\* rectangle that does not fit on the screen; 0 lines or columns reach to the
\* edge of the screen
newwin(nlines, ncols, begin_y, begin_x, nb) ==
    LET rows == IF nlines = 0 THEN MaxY + 1 - begin_y ELSE nlines
        cols == IF ncols = 0 THEN MaxX + 1 - begin_x ELSE ncols
    IN  IF \/ begin_y < 0 \/ begin_x < 0 \/ nlines < 0 \/ ncols < 0
           \/ rows <= 0 \/ cols <= 0
           \/ begin_y + rows > MaxY + 1 \/ begin_x + cols > MaxX + 1
        THEN [ok |-> FALSE, w |-> NoWin, cells |-> NoBuf]
        ELSE [ok |-> TRUE, w |-> Window(begin_y, begin_x, rows, cols, nb, 0, 0, 0),
              cells |-> BlankCells(rows, cols)]

\* a variant of Refresh that stages the window and leaves the update out
RefreshResult_NoUpdate(s, ws, bs, h) ==
    LET n == wnoutrefresh(s, ws, bs, h)
    IN  [s |-> n.s, err |-> "none", ncall |-> <<"wrefresh", h>>, ok |-> n.ok]

\* Refresh(): no error result
RefreshResult(s, ws, bs, h) ==
    LET n == wrefresh(s, ws, bs, h)
    IN  [s |-> n.s, err |-> "none", ncall |-> <<"wrefresh", h>>, ok |-> n.ok]

\* NoutRefresh(): no error result
NoutRefreshResult(s, ws, bs, h) ==
    LET n == wnoutrefresh(s, ws, bs, h)
    IN  [s |-> n.s, err |-> "none", ncall |-> <<"wnoutrefresh", h>>, ok |-> n.ok]

\* a variant of Update that returns without the native call
UpdateResult_NoCall(s) ==
    [s |-> s, err |-> "nil", ncall |-> <<"doupdate">>, ok |-> TRUE]

\* Update() error
UpdateResult(s) ==
    LET n == doupdate(s)
    IN  [s |-> n.s, err |-> IF n.ok THEN "nil" ELSE "Failed to update",
         ncall |-> <<"doupdate">>, ok |-> n.ok]

\* a method called on Window{nil}, or on a window of the library
Callable(h) == h = 0 \/ IsWindow(wins, h)

\* a refresh call takes effect on the screen
Refreshed(op, impl, h, r) ==
    /\ scr' = r.s
    /\ last' = Call(op, impl, h, <<>>, r.err, r.ncall, <<>>, <<>>)
    /\ nret' = Reported(r.ncall, r.ok)
    /\ UNCHANGED <<term, COLOR_PAIRS, pairs, wins, bufs, nops, mouse, pc>>

Refresh(h) ==
    /\ Callable(h)
    /\ Refreshed("Refresh", "color.go", h, RefreshResult(scr, wins, bufs, h))

NoutRefresh(h) ==
    /\ Callable(h)
    /\ Refreshed("NoutRefresh", "color.go", h, NoutRefreshResult(scr, wins, bufs, h))

Update ==
    Refreshed("Update", "both", 0, UpdateResult(scr))

\* Erase(): no error result
Erase(h) ==
    /\ Live(h)
    /\ nops < MaxOps
    /\ nops' = nops + 1
    /\ LET r == werase(wins[h], bufs[wins[h].buf])
       IN  /\ wins' = [wins EXCEPT ![h] = r.w]
           /\ bufs' = [bufs EXCEPT ![wins[h].buf] = r.cells]
           /\ scr' = [scr EXCEPT !.touched[h] = TRUE]
           /\ last' = Call("Erase", "color.go", h, <<>>, "none", <<"werase", h>>,
                           <<>>, <<wins[h].cury, wins[h].curx>>)
           /\ nret' = Reported(<<"werase", h>>, r.ok)
    /\ UNCHANGED <<term, COLOR_PAIRS, pairs, mouse, pc>>

\* NewWindow(h, w, y, x int) (window Window, err error)
NewWindow(h, w, y, x) ==
    LET r == newwin(CInt(h), CInt(w), CInt(y), CInt(x), NewHandle)
    IN  /\ FreeHandles # {}
        /\ nops < MaxOps
        /\ nops' = nops + 1
        /\ wins' = IF r.ok THEN [wins EXCEPT ![NewHandle] = r.w] ELSE wins
        /\ bufs' = IF r.ok THEN [bufs EXCEPT ![NewHandle] = r.cells] ELSE bufs
        /\ scr' = IF r.ok THEN [scr EXCEPT !.touched[NewHandle] = TRUE] ELSE scr
        /\ last' = Call("NewWindow", "both", 0, <<h, w, y, x>>,
                        IF r.ok THEN "nil" ELSE "Failed to create a new window",
                        <<"newwin", CInt(h), CInt(w), CInt(y), CInt(x)>>,
                        <<IF r.ok THEN NewHandle ELSE 0>>, <<>>)
        /\ nret' = IF r.ok THEN "OK" ELSE "NULL"
        /\ UNCHANGED <<term, COLOR_PAIRS, pairs, mouse, pc>>

\* End(): endwin() leaves curses mode; no error result
End ==
    /\ scr' = [scr EXCEPT !.endwin = TRUE]
    /\ last' = Call("End", "both", 0, <<>>, "none", <<"endwin">>, <<>>, <<>>)
    /\ nret' = Reported(<<"endwin">>, TRUE)
    /\ UNCHANGED <<term, COLOR_PAIRS, pairs, wins, bufs, nops, mouse, pc>>

\* isendwin(): whether endwin was called with no wrefresh or doupdate since
isendwin(s) == s.endwin

\* IsEnd() bool
IsEndResult(s) == isendwin(s)

IsEnd ==
    /\ last' = Call("IsEnd", "both", 0, <<>>, "none", <<"isendwin">>,
                    <<IsEndResult(scr)>>, <<>>)
    /\ nret' = "none"
    /\ UNCHANGED <<term, COLOR_PAIRS, pairs, wins, bufs, nops, scr, mouse, pc>>

\* windows NewWindow is tried with: the top row, the left column (they share
\* the corner cell), the bottom-right cell, and a row above the screen
NewWindowArgs ==
    { <<1, MaxX + 1, 0, 0>>, <<MaxY + 1, 1, 0, 0>>, <<1, 1, MaxY, MaxX>>,
      <<1, 1, -1, 0>> }

\* cursor positions Move is tried with: the corners, one row above the window
\* and one column right of the screen
MoveArgs == {<<0, 0>>, <<MaxY, MaxX>>, <<-1, 0>>, <<0, MaxX + 1>>}

NextRefresh ==
    \/ \E a \in NewWindowArgs : NewWindow(a[1], a[2], a[3], a[4])
    \/ \E h \in 1..MaxWins : AddChar(h, <<0, 0, Chr.a>>)
    \/ \E h \in 1..MaxWins : Erase(h)
    \/ \E h \in 1..MaxWins : Refresh(h)
    \/ \E h \in 1..MaxWins : NoutRefresh(h)
    \/ Update

SpecRefresh == InitWindows /\ [][NextRefresh]_vars

\* a session on stdscr and on Window{nil}, up to End and after it
NextSession ==
    \/ \E a \in WriteArgs : AddChar(StdScr, a)
    \/ \E a \in MoveArgs : Move(StdScr, a[1], a[2])
    \/ \E h \in {0, StdScr} : Refresh(h)
    \/ \E h \in {0, StdScr} : NoutRefresh(h)
    \/ Update
    \/ End
    \/ IsEnd

SpecSession == InitWindows /\ [][NextSession]_vars

---------------------------------------------------------------------------
(* Derived and Parent *)

\* Derived(height, width, y, x int) Window: the handle derwin returns, and no
\* error result
DerivedResult(p, ph, height, width, y, x) ==
    derwin(p, ph, CInt(height), CInt(width), CInt(y), CInt(x))

Derived(ph, height, width, y, x) ==
    LET r == DerivedResult(wins[ph], ph, height, width, y, x)
    IN  /\ Live(ph)
        /\ FreeHandles # {}
        /\ nops < MaxOps
        /\ nops' = nops + 1
        /\ wins' = IF r.ok THEN [wins EXCEPT ![NewHandle] = r.w] ELSE wins
        /\ last' = Call("Derived", "color.go", ph, <<height, width, y, x>>, "none",
                        <<"derwin", ph, CInt(height), CInt(width), CInt(y), CInt(x)>>,
                        <<IF r.ok THEN NewHandle ELSE 0>>, <<>>)
        /\ scr' = IF r.ok THEN [scr EXCEPT !.touched[NewHandle] = TRUE] ELSE scr
        /\ nret' = IF r.ok THEN "OK" ELSE "NULL"
        /\ UNCHANGED <<term, COLOR_PAIRS, pairs, bufs, mouse, pc>>

\* a variant that wraps the window's own handle
ParentResult_Self(ws, h) == h

\* Parent() *Window: a new Window around w.win._parent; the handle is 0 (the
\* null pointer) for a window that has no parent
ParentResult(ws, h) == ws[h].parent

Parent(h) ==
    /\ Live(h)
    /\ last' = Call("Parent", "color.go", h, <<>>, "none", NoCall,
                    <<ParentResult(wins, h)>>, <<>>)
    /\ nret' = "none"
    /\ UNCHANGED <<term, COLOR_PAIRS, pairs, wins, bufs, nops, scr, mouse, pc>>

NextParent ==
    \/ \E a \in NewWindowArgs : NewWindow(a[1], a[2], a[3], a[4])
    \/ \E ph \in 1..MaxWins, a \in SubArgs : Sub(ph, a[1], a[2], a[3], a[4])
    \/ \E ph \in 1..MaxWins, a \in SubArgs : Derived(ph, a[1], a[2], a[3], a[4])
    \/ \E h \in 1..MaxWins : Parent(h)

SpecParent == InitWindows /\ [][NextParent]_vars

---------------------------------------------------------------------------
(* Input: GetChar *)

\* what wgetch returns when no key arrives in time
ERR == 0 - 1

\* the keys typed in this model
Keys == {Chr.a}

\* what can arrive at a read: a key, or nothing before the half-delay timeout
Arrivals(s) == Keys \cup (IF s.halfdelay > 0 THEN {ERR} ELSE {})

\* wgetch(win): a window changed since its last refresh is refreshed first;
\* then a key is read; with echo on, the key is added to the window at the
\* cursor and the window is refreshed again.  ERR on timeout.
wgetch(s, ws, bs, h, key) ==
    LET s1 == IF s.touched[h] THEN wrefresh(s, ws, bs, h).s ELSE s
        a == waddch(ws[h], bs[ws[h].buf], key)
        ws2 == [ws EXCEPT ![h] = a.w]
        bs2 == [bs EXCEPT ![ws[h].buf] = a.cells]
    IN  IF key = ERR
        THEN [ret |-> ERR, w |-> ws[h], cells |-> bs[ws[h].buf], s |-> s1]
        ELSE IF s.echo
        THEN [ret |-> key, w |-> a.w, cells |-> a.cells,
              s |-> wrefresh([s1 EXCEPT !.touched[h] = TRUE], ws2, bs2, h).s]
        ELSE [ret |-> key, w |-> ws[h], cells |-> bs[ws[h].buf], s |-> s1]

\* mvwgetch(win, y, x): wmove, and wgetch if the move succeeded
mvwgetch(s, ws, bs, h, y, x, key) ==
    LET m == wmove(ws[h], y, x)
    IN  IF m.ok THEN wgetch(s, [ws EXCEPT ![h] = m.w], bs, h, key)
        ELSE [ret |-> ERR, w |-> ws[h], cells |-> bs[ws[h].buf], s |-> s]

\* GetChar(coords ...int) int
GetCharResult(s, ws, bs, h, coords, key) ==
    LET n == Len(coords)
        y == IF n > 1 THEN coords[1] ELSE 0
        x == IF n > 2 THEN coords[2] ELSE 0
        count == (IF n > 1 THEN 1 ELSE 0) + (IF n > 2 THEN 1 ELSE 0)
    IN  IF count > 0
        THEN [r |-> mvwgetch(s, ws, bs, h, CInt(y), CInt(x), key),
              ncall |-> <<"mvwgetch", h, CInt(y), CInt(x)>>]
        ELSE [r |-> wgetch(s, ws, bs, h, key), ncall |-> <<"wgetch", h>>]

GetChar(h, coords, key) ==
    LET g == GetCharResult(scr, wins, bufs, h, coords, key)
    IN  /\ Live(h)
        /\ key \in Arrivals(scr)
        /\ nops < MaxOps
        /\ nops' = nops + 1
        /\ wins' = [wins EXCEPT ![h] = g.r.w]
        /\ bufs' = [bufs EXCEPT ![wins[h].buf] = g.r.cells]
        /\ scr' = g.r.s
        /\ last' = Call("GetChar", "color.go", h, coords, "none", g.ncall,
                        <<g.r.ret>>, <<wins[h].cury, wins[h].curx>>)
        /\ nret' = Reported(g.ncall, g.r.ret # ERR)
        /\ UNCHANGED <<term, COLOR_PAIRS, pairs, mouse, pc>>

\* Echo(on bool)
Echo(on) ==
    /\ scr' = [scr EXCEPT !.echo = on]
    /\ last' = Call("Echo", "both", 0, <<on>>, "none",
                    <<IF on THEN "echo" ELSE "noecho">>, <<>>, <<>>)
    /\ nret' = "OK"
    /\ UNCHANGED <<term, COLOR_PAIRS, pairs, wins, bufs, nops, mouse, pc>>

---------------------------------------------------------------------------
(* Input: GetString *)

\* the lines typed at a read of a string: the characters before Enter
Lines == {<<Chr.a>>, <<Chr.a, Chr.d>>}

\* the first n elements of str, all of it if it is shorter
Take(str, n) == SubSeq(str, 1, IF Len(str) < n THEN Len(str) ELSE n)

\* the terminating byte of a C string
NUL == 0

\* wgetnstr(win, str, n): reads characters until Enter, or until a read times
\* out in half-delay mode; keeps at most n of them (further ones beep), echoes
\* the kept ones if echo is on, moves the cursor to the start of the next
\* line, refreshes the window, and stores the kept characters followed by NUL
\* at str.  ERR if a read timed out.
wgetnstr(s, ws, bs, h, n, typed, timeout) ==
    LET got == Take(typed, n)
        e == waddstr(ws[h], bs[ws[h].buf], got)
        w1 == IF s.echo THEN e.w ELSE ws[h]
        cells == IF s.echo THEN e.cells ELSE bs[ws[h].buf]
        w2 == [w1 EXCEPT !.curx = 0,
                         !.cury = IF @ + 1 < w1.rows THEN @ + 1 ELSE @]
        ws2 == [ws EXCEPT ![h] = w2]
        bs2 == [bs EXCEPT ![ws[h].buf] = cells]
        s1 == [s EXCEPT !.touched[h] = @ \/ (s.echo /\ got # <<>>)]
    IN  [ok |-> ~timeout, bytes |-> got \o <<NUL>>, w |-> w2, cells |-> cells,
         s |-> wrefresh(s1, ws2, bs2, h).s]

\* C.GoString(p): the bytes at p before the first NUL
RECURSIVE GoString(_)
GoString(bytes) ==
    IF bytes = <<>> \/ Head(bytes) = NUL THEN <<>>
    ELSE <<Head(bytes)>> \o GoString(Tail(bytes))

\* what a write past the end of the n-byte buffer can do: land in memory
\* nothing uses, or corrupt the heap and end the program
Overflows == {"unnoticed", "fatal error: memory corruption"}

\* the ways the Go runtime aborts an operation
Panics ==
    {"panic: index out of range", "panic: interface conversion",
     "panic: makeslice: len out of range", "fatal error: memory corruption"}

\* GetString(n int) (string, error)
GetStringResult(s, ws, bs, h, n, typed, timeout, overflow) ==
    LET r == wgetnstr(s, ws, bs, h, CInt(n), typed, timeout)
        kept == [w |-> ws[h], cells |-> bs[ws[h].buf], s |-> s,
                 ncall |-> NoCall, ok |-> TRUE, ret |-> <<>>]
        called == [w |-> r.w, cells |-> r.cells, s |-> r.s,
                   ncall |-> <<"wgetnstr", h, CInt(n)>>, ok |-> r.ok]
    IN  IF n < 0
        THEN kept @@ [err |-> "panic: makeslice: len out of range"]
        ELSE IF n = 0
        THEN kept @@ [err |-> "panic: index out of range"]
        ELSE IF Len(r.bytes) > n /\ overflow # "unnoticed"
        THEN called @@ [err |-> overflow, ret |-> <<>>]
        ELSE IF ~r.ok
        THEN called @@ [err |-> "Failed to retrieve string from input stream",
                        ret |-> << <<>> >>]
        ELSE called @@ [err |-> "nil", ret |-> <<GoString(r.bytes)>>]

GetString(h, n, typed, timeout, overflow) ==
    LET g == GetStringResult(scr, wins, bufs, h, n, typed, timeout, overflow)
    IN  /\ Live(h)
        /\ timeout => scr.halfdelay > 0
        /\ nops < MaxOps
        /\ nops' = nops + 1
        /\ wins' = [wins EXCEPT ![h] = g.w]
        /\ bufs' = [bufs EXCEPT ![wins[h].buf] = g.cells]
        /\ scr' = g.s
        /\ last' = Call("GetString", "color.go", h, <<n>>, g.err, g.ncall,
                        g.ret, <<wins[h].cury, wins[h].curx>>)
        /\ nret' = Reported(g.ncall, g.ok)
        /\ UNCHANGED <<term, COLOR_PAIRS, pairs, mouse, pc>>

\* the lengths GetString is called with
GetStringArgs == {0, 1, 2}

---------------------------------------------------------------------------
(* Input: HalfDelay *)

\* what a native call returns on success, and the zero value of a C.int
OK == 0

\* the longest half-delay, in tenths of a second
MaxHalfDelay == 255

\* halfdelay(tenths): for 1..255 puts the terminal in half-delay mode with
\* that timeout and returns OK; ERR, and no change, for any other value
halfdelay(s, tenths) ==
    IF tenths < 1 \/ tenths > MaxHalfDelay THEN [ret |-> ERR, s |-> s]
    ELSE [ret |-> OK, s |-> [s EXCEPT !.halfdelay = tenths]]

\* a variant that makes the native call for every delay >= 0
HalfDelayResult_CallsForZero(s, delay) ==
    LET r == halfdelay(s, CInt(delay))
        cerr == IF delay >= 0 THEN r.ret ELSE OK
    IN  [s |-> IF delay >= 0 THEN r.s ELSE s,
         ncall |-> IF delay >= 0 THEN <<"halfdelay", CInt(delay)>> ELSE NoCall,
         cerr |-> cerr,
         err |-> IF cerr = ERR THEN "Unable to set delay mode" ELSE "nil"]

\* HalfDelay(delay int) error
HalfDelayResult(s, delay) ==
    LET r == halfdelay(s, CInt(delay))
        cerr == IF delay > 0 THEN r.ret ELSE OK
    IN  [s |-> IF delay > 0 THEN r.s ELSE s,
         ncall |-> IF delay > 0 THEN <<"halfdelay", CInt(delay)>> ELSE NoCall,
         cerr |-> cerr,
         err |-> IF cerr = ERR THEN "Unable to set delay mode" ELSE "nil"]

HalfDelay(delay) ==
    LET r == HalfDelayResult(scr, delay)
    IN  /\ scr' = r.s
        /\ last' = Call("HalfDelay", "both", 0, <<delay>>, r.err, r.ncall,
                        <<>>, <<>>)
        /\ nret' = Reported(r.ncall, r.cerr # ERR)
        /\ UNCHANGED <<term, COLOR_PAIRS, pairs, wins, bufs, nops, mouse, pc>>

\* the delays HalfDelay is called with
Delays == {0 - 1, 0, 1, MaxHalfDelay + 1}

\* the coordinate lists GetChar is called with
GetCharArgs == {<<>>, <<1>>, <<0, 1>>, <<1, 1, 0>>}

NextInput ==
    \/ \E coords \in GetCharArgs, key \in Keys \cup {ERR} :
           GetChar(StdScr, coords, key)
    \/ \E n \in GetStringArgs, typed \in Lines, timeout \in BOOLEAN,
          overflow \in Overflows :
           GetString(StdScr, n, typed, timeout, overflow)
    \/ \E a \in {<<>>, <<Chr.a>>} : AddChar(StdScr, a)
    \/ \E a \in {<<>>, <<IntVal(0)>>, <<StrVal(<<Chr.a>>)>>} : WinPrint(StdScr, a)
    \/ \E on \in BOOLEAN : Echo(on)
    \/ \E delay \in Delays : HalfDelay(delay)

SpecInput == InitWindows /\ [][NextInput]_vars

---------------------------------------------------------------------------
(* The mouse *)

\* (C.mmask_t)(mask) and int(...) of the result: between Go int and the C
\* unsigned mask type.  The masks of this model are non-negative and below
\* 2^31, where both conversions keep the value.
CMMask(n) == n

\* mousemask(newmask, oldmask): the events of newmask that can be reported
\* are the ones reported from now on, and are the result; the mask before is
\* stored through oldmask
mousemask(m, newmask) ==
    [ret |-> BitAnd(newmask, m.events), old |-> m.mask,
     m |-> [m EXCEPT !.mask = BitAnd(newmask, m.events)]]

\* a variant that returns the mask that was in effect before the call
MouseMaskResult_ReturnsOld(impl, mask, m) ==
    LET n == mousemask(m, CMMask(mask))
    IN  IF impl = "color.go" /\ ~m.has
        THEN [ret |-> 0, old |-> <<>>, ncall |-> NoCall, m |-> m]
        ELSE [ret |-> CMMask(n.old), old |-> <<n.old>>,
              ncall |-> <<"mousemask", CMMask(mask)>>, m |-> n.m]

\* MouseMask(mask, old): ncurses.go always makes the native call; color.go
\* makes it only if ncurses_has_mouse(), and returns 0 otherwise
MouseMaskResult(impl, mask, m) ==
    LET n == mousemask(m, CMMask(mask))
    IN  IF impl = "color.go" /\ ~m.has
        THEN [ret |-> 0, old |-> <<>>, ncall |-> NoCall, m |-> m]
        ELSE [ret |-> CMMask(n.ret), old |-> <<n.old>>,
              ncall |-> <<"mousemask", CMMask(mask)>>, m |-> n.m]

MouseMask(impl, mask) ==
    LET r == MouseMaskResult(impl, mask, mouse)
    IN  /\ mouse' = r.m
        /\ last' = Call("MouseMask", impl, 0, <<mask>>, "none", r.ncall,
                        <<r.ret>>, r.old)
        /\ nret' = "none"
        /\ UNCHANGED <<term, COLOR_PAIRS, pairs, wins, bufs, nops, scr, pc>>

\* Mouse() bool
Mouse ==
    /\ last' = Call("Mouse", "both", 0, <<>>, "none", <<"ncurses_has_mouse">>,
                    <<mouse.has>>, <<>>)
    /\ nret' = "none"
    /\ UNCHANGED <<term, COLOR_PAIRS, pairs, wins, bufs, nops, scr, mouse, pc>>

\* the masks MouseMask is tried with: every set of events
MouseMasks == 0..MouseEvents

\* mouse support of the sessions tried: a terminal that reports every event,
\* one that reports presses and releases only, and one without a mouse; a
\* library without mouse support finds no mouse on any of them
MouseTerminals ==
    { [has |-> h, events |-> e, mask |-> 0] :
        <<h, e>> \in { <<TRUE, MouseEvents>>,
                       <<TRUE, M_B1_PRESSED + M_B1_RELEASED>>,
                       <<FALSE, MouseEvents>>,
                       <<FALSE, M_B1_PRESSED + M_B1_RELEASED>>,
                       <<FALSE, 0>> } }

InitMouse ==
    \E m \in MouseTerminals : Started([colors |-> TRUE, pairs |-> 256], m)

NextMouse ==
    \/ \E i \in {"ncurses.go", "color.go"}, k \in MouseMasks : MouseMask(i, k)
    \/ Mouse

SpecMouse == InitMouse /\ [][NextMouse]_vars

---------------------------------------------------------------------------
(* Calls from several threads.  A method of Window runs its Go part, enters *)
(* the native library and returns; the binding holds no lock around the     *)
(* native call, so nothing keeps a second thread from entering meanwhile.   *)

Inside(t) == pc[t] # NoCall

\* thread t calls AddChar(args) on window h and enters the native call
EnterAddChar(t, h, args) ==
    /\ ~Inside(t)
    /\ Live(h)
    /\ nops < MaxOps
    /\ nops' = nops + 1
    /\ pc' = [u \in Threads |->
                IF u = t
                THEN [h |-> h, args |-> args, w |-> wins[h], cells |-> bufs[wins[h].buf],
                      raced |-> \E v \in Threads \ {t} : Inside(v) /\ pc[v].h = h]
                ELSE IF Inside(u) /\ pc[u].h = h THEN [pc[u] EXCEPT !.raced = TRUE]
                ELSE pc[u]]
    /\ UNCHANGED <<term, COLOR_PAIRS, pairs, wins, bufs, last, scr, mouse, nret>>

\* the native call of thread t returns.  A call that ran alone has the effect
\* of AddChar on the window as it is; one that overlapped with another call on
\* the same window raced with it on the WINDOW structure, and may also leave
\* what it computed from the window as it was on entry (stale)
ReturnAddChar(t, stale) ==
    /\ Inside(t)
    /\ stale => pc[t].raced
    /\ LET c == pc[t]
           r == AddCharResult(c.h, IF stale THEN c.w ELSE wins[c.h],
                              IF stale THEN c.cells ELSE bufs[wins[c.h].buf], c.args)
       IN  /\ wins' = [wins EXCEPT ![c.h] = r.w]
           /\ bufs' = [bufs EXCEPT ![wins[c.h].buf] = r.cells]
           /\ scr' = [scr EXCEPT !.touched[c.h] = @ \/ Touches(wins[c.h], r.ncall)]
           /\ last' = Call("AddChar", "color.go", c.h, c.args, r.err, r.ncall, <<>>,
                           <<c.w.cury, c.w.curx>>)
           /\ nret' = Reported(r.ncall, r.ok)
    /\ pc' = [pc EXCEPT ![t] = NoCall]
    /\ UNCHANGED <<term, COLOR_PAIRS, pairs, nops, mouse>>

NextThreads ==
    \/ \E t \in Threads, a \in WriteArgs : EnterAddChar(t, StdScr, a)
    \/ \E t \in Threads, stale \in BOOLEAN : ReturnAddChar(t, stale)

SpecThreads == InitWindows /\ [][NextThreads]_vars

---------------------------------------------------------------------------
(* Claims about the color-pair registry, checked under SpecColor *)

\* C4: InitPair(0, fg, bg) returns the invalid-pair error for every fg and bg,
\* in both implementations, before and after StartColor, and makes no native
\* registration call.
C4_InitPairZeroRejected ==
    (last.op = "InitPair" /\ last.args[1] = 0)
        => (last.err = "Invalid color pair selected" /\ last.ncall = NoCall)

C4_Witness ==
    /\ last.op = "InitPair"
    /\ last.args[1] = 0
    /\ COLOR_PAIRS > 1
    /\ last.err = "Invalid color pair selected"

\* C5: InitPair(N, fg, bg) returns the invalid-parameter error whenever
\* N >= COLOR_PAIRS, and the call InitPair(255, C_BLACK, C_CYAN) of the color
\* example returns a non-nil error.
C5_InitPairAboveMaxRejected ==
    last.op = "InitPair" =>
        /\ (last.args[1] >= COLOR_PAIRS
                => last.err = "Invalid color pair selected")
        /\ (last.args = <<255, C_BLACK, C_CYAN>> => last.err # "nil")

\* C6: an InitPair call that returns an error leaves the registry as it was.
C6_FailedInitPairKeepsRegistry ==
    [][(last'.op = "InitPair" /\ last'.err # "nil") => pairs' = pairs]_vars

C6_Witness ==
    /\ last.op = "InitPair"
    /\ last.err = "Failed to init color pair"
    /\ last.args[1] \in DOMAIN pairs

\* C7 as stated: once a pair is registered its colors never change, whatever
\* is called later.
C7_PairImmutable ==
    [][\A p \in DOMAIN pairs : p \in DOMAIN pairs' /\ pairs'[p] = pairs[p]]_vars

\* C7 as amended: a registered pair stays registered, and its colors change
\* only in a successful InitPair call on that pair, which sets them to the
\* colors passed to the call.
C7_PairChangesOnlyByInitPair ==
    [][\A p \in DOMAIN pairs :
          /\ p \in DOMAIN pairs'
          /\ pairs'[p] # pairs[p] =>
                /\ last'.op = "InitPair"
                /\ last'.err = "nil"
                /\ CShort(last'.args[1]) = p
                /\ pairs'[p] = <<CShort(last'.args[2]), CShort(last'.args[3])>>]_vars

C7_Witness ==
    /\ last.op = "InitPair"
    /\ last.err = "nil"
    /\ last.old # <<>>
    /\ last.old # pairs[last.args[1]]
    /\ pairs[last.args[1]] = <<last.args[2], last.args[3]>>

---------------------------------------------------------------------------
(* Claims about the coordinate-overloaded methods, checked under SpecDraw *)

\* the cell a drawing call acted at: the position handed to the native mv*
\* call, or else the cursor position at the time of the call
ActedAt(c) ==
    IF c.ncall = NoCall THEN <<>>
    ELSE IF c.ncall[1] \in {"mvwaddch", "mvwaddstr", "mvwdelch"}
    THEN <<c.ncall[3], c.ncall[4]>>
    ELSE c.old

\* the call gave exactly one position argument before its payload
OnePosition(c) ==
    \/ c.op = "AddChar" /\ Len(c.args) = 2
    \/ c.op = "DelChar" /\ Len(c.args) = 1
    \/ c.op = "Print" /\ Len(c.args) >= 2
          /\ c.args[1].t = "int" /\ c.args[2].t = "string"

\* the call gave two position arguments before its payload
TwoPositions(c) ==
    \/ c.op = "AddChar" /\ Len(c.args) = 3
    \/ c.op = "DelChar" /\ Len(c.args) = 2
    \/ c.op = "Print" /\ Len(c.args) >= 3
          /\ c.args[1].t = "int" /\ c.args[2].t = "int" /\ c.args[3].t = "string"

PosArg(c, i) == IF c.op = "Print" THEN c.args[i].v ELSE c.args[i]

\* C1: a call of AddChar, Print or DelChar with exactly one position argument
\* y acts at cell (y, 0), never at the cursor position.
C1_OnePositionActsAtColumnZero ==
    OnePosition(last) => ActedAt(last) = <<PosArg(last, 1), 0>>

\* C2: a call of AddChar, Print or DelChar with two position arguments (y, x)
\* acts at cell (y, x); x is never dropped or replaced by 0.
C2_TwoPositionsActAtYX ==
    TwoPositions(last) => ActedAt(last) = <<PosArg(last, 1), PosArg(last, 2)>>

\* C3: Print with a format string as its first argument treats none of its
\* arguments as a coordinate: the string is formatted with all the values
\* that follow and written at the cursor position.
C3_FormatFirstWritesAtCursor ==
    (last.op = "Print" /\ Len(last.args) >= 1 /\ last.args[1].t = "string")
        => last.ncall = <<"waddstr", last.win,
                          Sprintf(last.args[1].v, Tail(last.args))>>

---------------------------------------------------------------------------
(* Claims about Sub and Duplicate, checked under SpecWin *)

\* the rectangle of height x width cells at screen position (y, x) lies
\* within window p
Contained(p, height, width, y, x) ==
    /\ height >= 1 /\ width >= 1
    /\ y >= p.begy /\ y + height <= p.begy + p.rows
    /\ x >= p.begx /\ x + width <= p.begx + p.cols

IsError(err) == err \notin {"nil", "none"}

\* C9: Sub with a rectangle not contained in the parent returns an error
\* value to its caller and leaves the parent (content, cursor, attributes)
\* unchanged.
C9_SubOutsideParentFails ==
    [][(/\ last'.op = "Sub"
        /\ ~Contained(wins[last'.win], last'.args[1], last'.args[2],
                      last'.args[3], last'.args[4]))
          => /\ IsError(last'.err)
             /\ wins'[last'.win] = wins[last'.win]
             /\ bufs' = bufs]_vars

RECURSIVE Root(_, _)

\* the window h was carved from, through Sub, at the top of its family
Root(ws, h) == IF ws[h].parent = 0 THEN h ELSE Root(ws, ws[h].parent)

Related(ws, a, b) == Root(ws, a) = Root(ws, b)

WinCoords(w) == (0..w.rows - 1) \X (0..w.cols - 1)

\* all that window h shows
Content(ws, bs, h) == [c \in WinCoords(ws[h]) |-> WinCell(ws, bs, h, c[1], c[2])]

\* every window made by Sub shows, cell by cell, the cells of its parent that
\* lie at the same place of the screen
SharedView(ws, bs) ==
    \A s \in 1..MaxWins :
        (ws[s].live /\ ws[s].parent # 0) =>
            \A c \in WinCoords(ws[s]) :
                WinCell(ws, bs, s, c[1], c[2])
                    = WinCell(ws, bs, ws[s].parent,
                              c[1] + ws[s].begy - ws[ws[s].parent].begy,
                              c[2] + ws[s].begx - ws[ws[s].parent].begx)

\* C10: after any writes, a cell of a window made by Sub reads the same
\* through the window and through its parent, whichever of the two was
\* written; a write through a window made by Duplicate never changes the
\* original, nor a write through the original the duplicate.  In steps: the
\* window Sub returns lies where Sub was asked to put it, as a child of the
\* window Sub was called on; the window Duplicate returns is a copy related
\* to no other window; a write shows in the window written and changes no
\* window outside its family; and parent and child agree after every step.
C10_SubSharesDuplicateCopies ==
    [][/\ SharedView(wins', bufs')
       /\ (last'.op = "Sub" /\ last'.ret[1] # 0) =>
             LET s == wins'[last'.ret[1]]
             IN  /\ s.parent = last'.win
                 /\ <<s.rows, s.cols, s.begy, s.begx>> = last'.args
       /\ last'.op = "Duplicate" =>
             /\ wins'[last'.ret[1]].parent = 0
             /\ Content(wins', bufs', last'.ret[1]) = Content(wins, bufs, last'.win)
             /\ \A h \in 1..MaxWins :
                   wins[h].live => Content(wins', bufs', h) = Content(wins, bufs, h)
       /\ last'.op = "AddChar" =>
             /\ InWindow(wins[last'.win], last'.args[1], last'.args[2]) =>
                   WinCell(wins', bufs', last'.win, last'.args[1], last'.args[2])
                       = BitOr(last'.args[3], wins[last'.win].attrs)
             /\ \A h \in 1..MaxWins :
                   (wins[h].live /\ ~Related(wins, h, last'.win))
                       => Content(wins', bufs', h) = Content(wins, bufs, h)]_vars

\* a cell written through a window made by Sub shows in the parent and not in
\* a duplicate of the parent made before the write
C10_Witness ==
    \E s, d \in 1..MaxWins :
        /\ wins[s].live /\ wins[s].parent = StdScr
        /\ wins[d].live /\ d # StdScr /\ wins[d].parent = 0
        /\ last.op = "AddChar" /\ last.win = s
        /\ WinCell(wins, bufs, s, last.args[1], last.args[2]) = Chr.a
        /\ WinCell(wins, bufs, StdScr, last.args[1] + wins[s].begy,
                   last.args[2] + wins[s].begx) = Chr.a
        /\ \A c \in WinCoords(wins[d]) : WinCell(wins, bufs, d, c[1], c[2]) = Blank

---------------------------------------------------------------------------
(* Claims about attributes, checked under SpecAttr *)

\* C8: for every pair id, AttrOn(ColorPair(id)) and ColorOn(id) hand the same
\* bit mask to the native attribute-on call and leave the window with the
\* same attributes; likewise AttrOff(ColorPair(id)) and ColorOff(id).
C8_ColorOnIsAttrOnOfColorPair ==
    /\ last.op = "ColorOn" =>
          /\ last.ncall = <<"wattron", last.win, AttrMask(ColorPair(last.args[1]))>>
          /\ wins[last.win].attrs
                = wattr_on(last.old[1], AttrMask(ColorPair(last.args[1])))
    /\ last.op = "ColorOff" =>
          /\ last.ncall = <<"wattroff", last.win, AttrMask(ColorPair(last.args[1]))>>
          /\ wins[last.win].attrs
                = wattr_off(last.old[1], AttrMask(ColorPair(last.args[1])))
    /\ \A p \in PairArgsByte :
          /\ (last.op = "AttrOn" /\ last.args[1] = ColorPair(p)) =>
                /\ last.ncall = <<"wattron", last.win, ColorMask(p)>>
                /\ wins[last.win].attrs = wattr_on(last.old[1], ColorMask(p))
          /\ (last.op = "AttrOff" /\ last.args[1] = ColorPair(p)) =>
                /\ last.ncall = <<"wattroff", last.win, ColorMask(p)>>
                /\ wins[last.win].attrs = wattr_off(last.old[1], ColorMask(p))

\* a color pair is switched on over another pair and bold
C8_Witness ==
    /\ last.op = "ColorOn"
    /\ last.args[1] = 255
    /\ PairNumber(last.old[1]) = 1
    /\ BitAnd(last.old[1], A_BOLD) = A_BOLD
    /\ PairNumber(wins[last.win].attrs) = 255

---------------------------------------------------------------------------
(* Claims about refreshing, checked under SpecRefresh *)

LiveHandles == {h \in 1..MaxWins : wins[h].live}

\* the physical screen after NoutRefresh(a); NoutRefresh(b); Update()
BatchedScreen(a, b) ==
    UpdateResult(
        NoutRefreshResult(NoutRefreshResult(scr, wins, bufs, a).s, wins, bufs, b).s
    ).s.curscr

\* the physical screen after Refresh(a); Refresh(b)
EachScreen(a, b) ==
    RefreshResult(RefreshResult(scr, wins, bufs, a).s, wins, bufs, b).s.curscr

\* C11: from every state of a session, for any two windows A and B (also the
\* same window, also overlapping ones), NoutRefresh(A); NoutRefresh(B);
\* Update() leaves the physical screen that Refresh(A); Refresh(B) leaves.
C11_BatchedRefreshShowsSameScreen ==
    \A a, b \in LiveHandles : BatchedScreen(a, b) = EachScreen(a, b)

\* two windows with changes to show that overlap and differ where they
\* overlap, so that the order of the two refreshes shows on the screen
C11_Witness ==
    \E a, b \in LiveHandles :
        /\ a # b
        /\ scr.touched[a] /\ scr.touched[b]
        /\ \E c \in DOMAIN scr.curscr :
               /\ Covers(wins[a], c) /\ Covers(wins[b], c)
               /\ Overlaid(scr.curscr, wins[a], bufs[wins[a].buf])[c]
                      # Overlaid(scr.curscr, wins[b], bufs[wins[b].buf])[c]
        /\ scr.newscr # scr.curscr
        /\ EachScreen(a, b) # scr.curscr
        /\ EachScreen(a, b) # EachScreen(b, a)
        /\ BatchedScreen(a, b) = EachScreen(a, b)

\* a window is Dirty while it has changes that the physical screen was not
\* updated with: lines marked as changed, or lines staged on the virtual
\* screen since the last update; otherwise it is Clean
Dirty(s, h) == s.touched[h] \/ h \in s.staged

Clean(s, h) == ~Dirty(s, h)

MutatingOps == {"AddChar", "Print", "DelChar", "Erase"}

---------------------------------------------------------------------------
(* Claims about the mouse, checked under SpecMouse *)

IsSubmask(a, b) == BitAnd(a, b) = a

\* C13: what MouseMask(requested, old) returns is a submask of requested;
\* with mouse support in the library and a terminal that reports every event
\* it is requested itself; and the implementation of color.go returns 0
\* without a native call when the library has no mouse support.
C13_MouseMaskGrantsSubset ==
    last.op = "MouseMask" =>
        /\ IsSubmask(last.ret[1], last.args[1])
        /\ (mouse.has /\ mouse.events = MouseEvents) => last.ret[1] = last.args[1]
        /\ (last.impl = "color.go" /\ ~mouse.has) =>
               last.ret[1] = 0 /\ last.ncall = NoCall

\* a request the terminal grants in part, made while other events were on
C13_Witness ==
    /\ last.op = "MouseMask"
    /\ last.ncall # NoCall
    /\ last.ret[1] # 0
    /\ last.ret[1] # last.args[1]
    /\ last.old # <<0>>
    /\ ~IsSubmask(last.old[1], last.args[1])

---------------------------------------------------------------------------
(* Claims about the end of the session and about failures of the native *)
(* library, checked under SpecSession                                    *)

\* C14: IsEnd answers false from Init until End is called; End makes it
\* answer true; and once it answers true it answers true in every later
\* state, whatever is called after End.
C14_IsEndStaysTrueAfterEnd ==
    [][ /\ last'.op = "End" => IsEndResult(scr')
        /\ (~IsEndResult(scr) /\ last'.op # "End") => ~IsEndResult(scr')
        /\ IsEndResult(scr) => IsEndResult(scr')
        /\ last'.op = "IsEnd" => last'.ret = <<IsEndResult(scr)>>
      ]_vars

\* C15: whenever the native call of an operation reports failure (ERR or a
\* null handle), the operation returns a non-nil error.
C15_NativeFailureIsReturned ==
    nret \in {"ERR", "NULL"} => IsError(last.err)

---------------------------------------------------------------------------
(* Claim about threads, checked under SpecThreads *)

\* C16: when two threads each call a window-mutating operation on the same
\* window, their native calls do not overlap: no state has two threads
\* inside the native library with calls on the same window.
C16_NativeCallsDoNotOverlap ==
    \A t, u \in Threads :
        (t # u /\ Inside(t) /\ Inside(u)) => pc[t].h # pc[u].h

---------------------------------------------------------------------------
(* Claim about Parent, checked under SpecParent *)

\* C17: Parent() on stdscr and on a window made by NewWindow returns the null
\* handle, which is no window's handle; on a window made by Sub or Derived it
\* returns the handle of the window it was made from; and what it returns
\* for a window never changes.
C17_ParentOfRootIsNull ==
    /\ ParentResult(wins, StdScr) = 0
    /\ [][ /\ (last'.op \in {"Sub", "Derived"} /\ last'.ret # <<0>>)
               => /\ ParentResult(wins', last'.ret[1]) = last'.win
                  /\ IsWindow(wins', ParentResult(wins', last'.ret[1]))
           /\ (last'.op = "NewWindow" /\ last'.ret # <<0>>)
               => /\ ParentResult(wins', last'.ret[1]) = 0
                  /\ ~IsWindow(wins', 0)
           /\ \A h \in 1..MaxWins :
                  IsWindow(wins, h) => ParentResult(wins', h) = ParentResult(wins, h)
           /\ last'.op = "Parent" => last'.ret = <<ParentResult(wins, last'.win)>>
         ]_vars

\* Parent was called on a window made from a window that is not stdscr, while
\* a second root window exists
C17_Witness ==
    /\ last.op = "Parent"
    /\ last.ret # <<0>>
    /\ last.ret # <<StdScr>>
    /\ \E h \in 1..MaxWins :
           IsWindow(wins, h) /\ h # StdScr /\ ParentResult(wins, h) = 0

---------------------------------------------------------------------------
(* Claim about Window.Color, checked under SpecWinColor *)

\* C18: the pair number Color(pair) hands to the native set-color call is
\* pair itself, for every pair in 0..255.
C18_ColorPassesPairNumber ==
    last.op = "Color" => last.ncall[3] = last.args[1]

---------------------------------------------------------------------------
(* Claims about the range guard of InitPair, checked under SpecColor *)

GuardRejected(c) == c.err = "Invalid color pair selected" /\ c.ncall = NoCall

\* C19: the range guard of InitPair lets a pair id through exactly when
\* 1 <= pair <= COLOR_PAIRS - 1, for every pair value of the parameter's type
\* and every value of COLOR_PAIRS.
C19_GuardAcceptsExactlyValidPairs ==
    last.op = "InitPair" =>
        (~GuardRejected(last)
            <=> (1 <= last.args[1] /\ last.args[1] <= COLOR_PAIRS - 1))

\* C20: InitPair returns nil only if StartColor has returned nil before (which
\* alone makes COLOR_PAIRS positive); while COLOR_PAIRS is 0 the range guard
\* rejects every pair id; and StartColor on a terminal without colors returns
\* an error and leaves color mode off.
C20_InitPairNeedsStartColor ==
    /\ (COLOR_PAIRS > 0) => term.colors
    /\ (last.op = "InitPair" /\ last.err = "nil") => COLOR_PAIRS > 0
    /\ (last.op = "InitPair" /\ COLOR_PAIRS = 0) => GuardRejected(last)
    /\ (last.op = "StartColor" /\ ~term.colors) =>
           IsError(last.err) /\ COLOR_PAIRS = 0
    /\ (last.op = "StartColor" /\ last.err = "nil") => COLOR_PAIRS > 0

---------------------------------------------------------------------------
(* Claims about input, checked under SpecInput *)

\* C21: GetChar with no coordinates reads at the current cursor position; with
\* one coordinate y it moves the cursor to (y, 0) before reading; with two
\* coordinates (y, x) it moves the cursor to (y, x) before reading.
C21_GetCharReadsAtGivenPosition ==
    last.op = "GetChar" =>
        /\ Len(last.args) = 0 => last.ncall = <<"wgetch", last.win>>
        /\ Len(last.args) = 1 =>
               last.ncall = <<"mvwgetch", last.win, last.args[1], 0>>
        /\ Len(last.args) = 2 =>
               last.ncall = <<"mvwgetch", last.win, last.args[1], last.args[2]>>

\* C22: AddChar, Print and GetString return normally or with an error value
\* for every argument list; none of them is aborted by the Go runtime.
C22_VariadicOperationsNeverPanic ==
    last.op \in {"AddChar", "Print", "GetString"} => last.err \notin Panics

\* C23: HalfDelay(delay) with delay <= 0 makes no native call, leaves the
\* terminal's input mode unchanged and returns nil; with delay > 0 it calls
\* the native half-delay with that delay and returns a non-nil error exactly
\* when the native call reports ERR.
C23_HalfDelaySkipsNonPositiveDelay ==
    [][ last'.op = "HalfDelay" =>
          /\ last'.args[1] <= 0 =>
                 /\ last'.ncall = NoCall
                 /\ scr' = scr
                 /\ last'.err = "nil"
          /\ last'.args[1] > 0 =>
                 /\ last'.ncall = <<"halfdelay", last'.args[1]>>
                 /\ IsError(last'.err) <=> nret' = "ERR"
      ]_vars

\* HalfDelay was called with a delay <= 0 while the terminal was in
\* half-delay mode
C23_Witness ==
    last.op = "HalfDelay" /\ last.args[1] <= 0 /\ scr.halfdelay > 0

=============================================================================
